---- MODULE Spec2Model ----
(***************************************************************************)
(* zatt/client/distributedDict.py: the dictionary client of a zatt         *)
(* cluster.  One DistributedDict instance, used by one caller, against     *)
(* servers that may answer every request with any well-formed response.    *)
(* One step of the model is one statement-level step of the client; one    *)
(* network round trip (connect, send, read until close, decode) is one     *)
(* step.                                                                   *)
(***************************************************************************)
EXTENDS Integers, Sequences, FiniteSets, TLC

\* ------------------------------------------------------------------ bounds
\* largest append_retry_attempts a client is constructed with
MaxAttempts == 2
\* the hop bound the specification asks of the router
MaxHops == 1
\* the redirect counter (a history variable) saturates one above MaxHops
HopCap == MaxHops + 1
\* largest `maximum` a RefreshPolicyCount is constructed with
MaxMaximum == 2
\* policy-gated reads are issued while the count policy's counter is below this
CounterCap == 3
\* policy-gated reads are issued until a count policy has answered this often
MaxDecisions == 4
\* the clock of datetime.datetime.now() runs from 0 to MaxClock
MaxClock == 2
\* largest interval a RefreshPolicyTime is constructed with
MaxDelta == 1

\* ------------------------------------------------------------- value space
Members == {"A", "B"}
ClusterKey == "cluster"
AppKeys == {"a"}
Keys == AppKeys \cup {ClusterKey}
Values == {1, 5}
SetValues == {5}
NoKey == "-"
NoMember == "-"
None == -1

\* a value stored in a dictionary: an application value or a list of members
Val(v) == [tag |-> "val", members |-> {}, val |-> v]
Mem(S) == [tag |-> "list", members |-> S, val |-> 0]
NoVal == [tag |-> "none", members |-> {}, val |-> 0]

EmptyDict == [k \in {} |-> NoVal]

\* the dictionaries a server may hand out as its state machine: the
\* application keys and, under the same mapping, the key 'cluster'
\* (a successful d['cluster'] = 5 of any client puts 5 there)
Seed == "A"
MemberLists == {{Seed}, Members}
ClusterValues == {Mem(S) : S \in MemberLists} \cup {Val(v) : v \in SetValues}
Snapshots ==
    UNION { { d \in [D -> {Val(v) : v \in Values} \cup ClusterValues] :
                \A k \in D : IF k = ClusterKey THEN d[k] \in ClusterValues
                                               ELSE d[k].tag = "val" }
            : D \in {E \in SUBSET Keys : ClusterKey \in E} }

\* ---------------------------------------------------------------- messages
Msg(t, a, k, v, m) == [type |-> t, action |-> a, key |-> k, value |-> v, address |-> m]
NoMsg == Msg("none", "-", NoKey, 0, NoMember)
GetMsg == Msg("get", "-", NoKey, 0, NoMember)
DiagnosticMsg == Msg("diagnostic", "-", NoKey, 0, NoMember)
ConfigMsg(action, address) == Msg("config", action, NoKey, 0, address)
\* the payloads of __setitem__ and __delitem__, and the message wrapping one
ChangePayload(key, value) == [action |-> "change", key |-> key, value |-> value]
DeletePayload(key) == [action |-> "delete", key |-> key, value |-> 0]
AppendMsg(payload) == Msg("append", payload.action, payload.key, payload.value, NoMember)
ConfigActions == {"add"}

Resp(t, l, s, d) == [type |-> t, leader |-> l, success |-> s, data |-> d]
NoResp == Resp("none", NoMember, FALSE, EmptyDict)
Redirect(l) == Resp("redirect", l, FALSE, EmptyDict)

\* the normal (non-redirect) responses a server gives to a message
Answers(msg) ==
    CASE msg.type = "get" -> {Resp("state", NoMember, FALSE, d) : d \in Snapshots}
      [] msg.type = "append" -> {Resp("result", NoMember, s, EmptyDict) : s \in BOOLEAN}
      [] msg.type = "diagnostic" -> {Resp("diagnostic", NoMember, FALSE, EmptyDict)}
      [] msg.type = "config" -> {Resp("config", NoMember, s, EmptyDict) : s \in BOOLEAN}
      [] OTHER -> {}

\* what a public operation hands back to its caller
NoneRet == [kind |-> "None", v |-> NoVal, r |-> NoResp]
ValueRet(v) == [kind |-> "value", v |-> v, r |-> NoResp]
RespRet(r) == [kind |-> "response", v |-> NoVal, r |-> r]

Op(name, key, value) == [name |-> name, key |-> key, value |-> value]
NoOp == Op("none", NoKey, 0)

Policies == {"always", "lock", "count", "time"}

\* what RefreshPolicyTime is constructed with: a datetime.timedelta (the
\* default argument is one) or a callable that returns one
DeltaArgs == {"timedelta", "callable"}
NoArg == "-"

VARIABLES
    pc,                     \* position of the caller's thread in the client
    op,                     \* the public operation in progress
    outcome,                \* "running", "returned" or the exception raised
    ret,                    \* the value the public operation returned
    data,                   \* UserDict.data: application keys and 'cluster'
    server_address,         \* the tracked member
    append_retry_attempts,
    refresh_policy,         \* which policy class the client was given
    lock,                   \* RefreshPolicyLock.lock
    counter, maximum,       \* RefreshPolicyCount
    delta_arg,              \* history: the argument RefreshPolicyTime was given
    delta, last_refresh,    \* RefreshPolicyTime
    now,                    \* datetime.datetime.now()
    force,                  \* refresh's argument
    message,                \* _request's argument
    response,               \* _append_log's local `response`
    attempt,                \* iterations of _append_log's loop completed
    hops,                   \* history: redirects followed by this _request call
    rx,                     \* resp: the last response read off the wire
    first,                  \* history: first message sent by this _request call
    sent,                   \* history: last message put on the wire in this operation
    leader,                 \* history: leader named by the last redirect of this call
    answered_by,            \* history: member whose normal response was read last
    first_true,             \* history: position of the first success=true attempt
    decisions,              \* history: calls of can_update a count policy has answered
    fired,                  \* history: a can_update of the time policy returned True
    since                   \* history: the last snapshot fetch and what followed it

vars == <<pc, op, outcome, ret, data, server_address, append_retry_attempts,
          refresh_policy, lock, counter, maximum, delta, last_refresh, now,
          force, message, response, attempt, hops, rx, first, sent, leader,
          answered_by, first_true, decisions, fired, delta_arg, since>>

config == <<append_retry_attempts, refresh_policy, maximum, delta, delta_arg>>
policy_state == <<lock, counter, last_refresh, now, decisions, fired>>
request_hist == <<hops, rx, first, sent, leader, answered_by>>

\* history kept from one snapshot fetch to the next: the 'cluster' entry of
\* that snapshot (of the seed before the first), the key of the last set that
\* a server answered with success, the key __delitem__ removed locally
Since(cluster, set, del) == [cluster |-> cluster, set |-> set, del |-> del]

Min(a, b) == IF a < b THEN a ELSE b

\* ------------------------------------------------------- refresh policies
Decision(r, c, l) == [ret |-> r, counter |-> c, last_refresh |-> l]

\* RefreshPolicyAlways.can_update
AlwaysCanUpdate == Decision(TRUE, counter, last_refresh)

\* the lock is ignored
LockCanUpdate_Open == Decision(TRUE, counter, last_refresh)

\* RefreshPolicyLock.can_update
LockCanUpdate == Decision(lock, counter, last_refresh)

\* the counter is not reset when the policy fires
CountCanUpdate_NoReset ==
    LET c == counter + 1
    IN  IF c = maximum THEN Decision(TRUE, c, last_refresh)
                       ELSE Decision(FALSE, c, last_refresh)

\* RefreshPolicyCount.can_update
CountCanUpdate ==
    LET c == counter + 1
    IN  IF c = maximum THEN Decision(TRUE, 0, last_refresh)
                       ELSE Decision(FALSE, c, last_refresh)

\* RefreshPolicyTime.__init__: self.delta = delta() needs a callable
DeltaCallable(arg) == arg = "callable"

\* RefreshPolicyTime.can_update reads the clock twice: `now` in the
\* comparison, and once more, at `later`, for the value it stores
TimeCanUpdate(later) ==
    IF last_refresh = None \/ now - last_refresh > delta
        THEN Decision(TRUE, counter, later)
        ELSE Decision(FALSE, counter, last_refresh)

\* the values the second reading of the clock may give
Readings ==
    IF refresh_policy = "time" /\ ~force
        THEN {t \in {now, now + 1} : t <= MaxClock}
        ELSE {now}

can_update(later) ==
    CASE refresh_policy = "always" -> AlwaysCanUpdate
      [] refresh_policy = "lock" -> LockCanUpdate
      [] refresh_policy = "count" -> CountCanUpdate
      [] refresh_policy = "time" -> TimeCanUpdate(later)

\* the operands the other way round: the policy is asked first
ShouldRefresh_PolicyFirst(later) ==
    LET d == can_update(later)
    IN  Decision(d.ret \/ force, d.counter, d.last_refresh)

\* `force or self.refresh_policy.can_update()`: can_update runs only if not force
ShouldRefresh(later) ==
    IF force THEN Decision(TRUE, counter, last_refresh) ELSE can_update(later)

\* ---------------------------------------------------------------- _request
\* 'type' in resp and resp['type'] == 'redirect'
IsRedirect(resp) == resp.type = "redirect"

\* self.server_address = tuple(resp['leader'])
NextAddress(resp) == resp.leader

\* any member is contacted, in the list or not
Contacts_Any(d) == Members

\* random.choice(self.data['cluster']): the members one of which is contacted
Contacts(d) == d[ClusterKey].members

\* the message the recursive call is given
Resend(msg) == msg

\* the redirected frame returns its own resp, the redirect
Unwind_Drop(outer, inner) == outer

\* resp = self._request(message); return resp
Unwind(outer, inner) == inner

\* ------------------------------------------------------------ the mapping
\* a missing key is passed over, as by pop(key, None)
Holds_Any(d, key) == TRUE

\* del self.data[key] raises KeyError unless the key is in the dict
Holds(d, key) == key \in DOMAIN d

\* the key stays in the mirror
DelItem_Keep(d, key) == d

\* the whole mirror is dropped
DelItem_Clear(d, key) == EmptyDict

\* del self.data[key]
DelItem(d, key) == [k \in DOMAIN d \ {key} |-> d[k]]

\* the snapshot is merged into the mirror, dict.update
Replace_Update(d, state) ==
    [k \in DOMAIN d \cup DOMAIN state |-> IF k \in DOMAIN state THEN state[k] ELSE d[k]]

\* self.data = <the snapshot>: the attribute is rebound to the fetched dict
Replace(d, state) == state

\* the mirror was emptied before the request was made
Kept_Cleared(d) == EmptyDict

\* an exception of _request leaves refresh before self.data is assigned
Kept(d) == d

\* the loop never breaks
BreakLoop_Never(resp) == FALSE

\* if response['success']: break
BreakLoop(resp) == resp.success

\* range(self.append_retry_attempts) has another element
HasNextAttempt(done, n) == done < n

\* __setitem__ and __delitem__ have no return statement
SetItemReturn(resp) == NoneRet
DelItemReturn(resp) == NoneRet

Payload ==
    IF op.name = "set" THEN ChangePayload(op.key, op.value) ELSE DeletePayload(op.key)

\* -------------------------------------------------------------------- Init
\* DistributedDict.__init__ after its assignments, about to call refresh(force=True);
\* with a time policy, the caller is still about to construct the policy that
\* the client will be given
Init ==
    /\ refresh_policy \in Policies
    /\ delta_arg \in IF refresh_policy = "time" THEN DeltaArgs ELSE {NoArg}
    /\ IF refresh_policy = "time"
          THEN pc = "policy" /\ op = Op("policy", NoKey, 0)
          ELSE pc = "refresh" /\ op = Op("init", NoKey, 0)
    /\ outcome = "running"
    /\ ret = NoneRet
    /\ data = [k \in {ClusterKey} |-> Mem({Seed})]
    /\ server_address = NoMember
    /\ append_retry_attempts \in 0..MaxAttempts
    /\ lock \in IF refresh_policy = "lock" THEN BOOLEAN ELSE {TRUE}
    /\ counter = 0
    /\ maximum \in IF refresh_policy = "count" THEN 0..MaxMaximum ELSE {0}
    /\ delta \in IF refresh_policy = "time" THEN 1..MaxDelta ELSE {0}
    /\ last_refresh = None
    /\ now = 0
    /\ force = TRUE
    /\ message = NoMsg
    /\ response = NoResp
    /\ attempt = 0
    /\ hops = 0
    /\ rx = NoResp
    /\ first = NoMsg
    /\ sent = NoMsg
    /\ leader = NoMember
    /\ answered_by = NoMember
    /\ first_true = 0
    /\ decisions = 0
    /\ fired = FALSE
    /\ since = Since(Mem({Seed}), NoKey, NoKey)

\* ------------------------------------------------------- the caller's calls
Begin(o, f, p) ==
    /\ pc = "idle"
    /\ pc' = p
    /\ op' = o
    /\ force' = f
    /\ outcome' = "running"
    /\ UNCHANGED <<ret, data, server_address, config, policy_state, message,
                   response, attempt, request_hist, first_true, since>>

PolicyCallAllowed ==
    refresh_policy = "count" => counter < CounterCap /\ decisions < MaxDecisions

\* d[key]
CallGetItem == \E key \in Keys : PolicyCallAllowed /\ Begin(Op("get", key, 0), FALSE, "refresh")

\* d[key] = value
CallSetItem == \E key \in Keys, value \in SetValues : Begin(Op("set", key, value), FALSE, "append")

\* del d[key]
CallDelItem == \E key \in Keys : Begin(Op("delete", key, 0), TRUE, "refresh")

\* d.refresh(force)
CallRefresh ==
    \E f \in BOOLEAN : (f \/ PolicyCallAllowed) /\ Begin(Op("refresh", NoKey, 0), f, "refresh")

\* the caller sets the flag of its RefreshPolicyLock
SetLock ==
    /\ pc = "idle"
    /\ refresh_policy = "lock"
    /\ lock' = ~lock
    /\ UNCHANGED <<pc, op, outcome, ret, data, server_address, config, counter,
                   last_refresh, now, decisions, fired, force, message, response, attempt,
                   request_hist, first_true, since>>

\* time passes between two calls
Tick ==
    /\ pc = "idle"
    /\ refresh_policy = "time"
    /\ now < MaxClock
    /\ now' = now + 1
    /\ UNCHANGED <<pc, op, outcome, ret, data, server_address, config, lock, counter,
                   last_refresh, decisions, fired, force, message, response, attempt,
                   request_hist, first_true, since>>

\* ------------------------------------------------------------ one _request
StartRequest(msg, to) ==
    /\ pc' = "request"
    /\ message' = msg
    /\ server_address' = to
    /\ hops' = 0
    /\ rx' = NoResp
    /\ first' = NoMsg
    /\ leader' = NoMember
    /\ answered_by' = NoMember

Finish(o, r) ==
    /\ pc' = "done"
    /\ outcome' = o
    /\ ret' = r

\* RefreshPolicyTime(delta): self.delta = delta() raises unless delta is
\* callable, and then there is no policy and no client
ConstructPolicy ==
    /\ pc = "policy"
    /\ IF DeltaCallable(delta_arg)
          THEN /\ pc' = "refresh"
               /\ op' = Op("init", NoKey, 0)
               /\ UNCHANGED <<outcome, ret>>
          ELSE /\ Finish("TypeError", NoneRet)
               /\ UNCHANGED op
    /\ UNCHANGED <<data, server_address, config, policy_state, force, message,
                   response, attempt, request_hist, first_true, since>>

\* d.diagnostic
CallDiagnostic ==
    /\ pc = "idle"
    /\ op' = Op("diagnostic", NoKey, 0)
    /\ outcome' = "running"
    /\ StartRequest(DiagnosticMsg, server_address)
    /\ UNCHANGED <<ret, data, config, policy_state, force, response, attempt, sent,
                   first_true, since>>

\* d.config_cluster(action, address, port)
CallConfigCluster ==
    /\ pc = "idle"
    /\ \E action \in ConfigActions, address \in Members :
          /\ op' = Op("config", NoKey, 0)
          /\ StartRequest(ConfigMsg(action, address), server_address)
    /\ outcome' = "running"
    /\ UNCHANGED <<ret, data, config, policy_state, force, response, attempt, sent,
                   first_true, since>>

\* connect, send or recv raises, or the bytes read do not decode
RequestFails ==
    /\ pc = "request"
    /\ \E e \in {"NetworkError", "DecodeError"} : Finish(e, NoneRet)
    /\ data' = Kept(data)
    /\ sent' = message
    /\ first' = IF hops = 0 THEN message ELSE first
    /\ UNCHANGED <<op, server_address, config, policy_state, force, message,
                   response, attempt, hops, rx, leader, answered_by, first_true, since>>

\* the response is a redirect: track the leader it names and call _request
\* again.  The call is a tail call and the code counts nothing: the only end
\* of a chain of redirects is the interpreter's own recursion limit, which is
\* a setting of the host process and not modelled; hops only records the chain.
RequestRedirected ==
    /\ pc = "request"
    /\ \E l \in Members :
          LET resp == Redirect(l)
          IN  /\ IsRedirect(resp)
              /\ server_address' = NextAddress(resp)
              /\ rx' = resp
              /\ leader' = resp.leader
    /\ message' = Resend(message)
    /\ hops' = Min(hops + 1, HopCap)
    /\ sent' = message
    /\ first' = IF hops = 0 THEN message ELSE first
    /\ UNCHANGED <<pc, op, outcome, ret, data, config, policy_state, force,
                   response, attempt, answered_by, first_true, since>>

\* the value _request returns when the innermost call read `resp`: a frame
\* that was redirected holds the redirect in its own resp
Returned(resp) == IF hops > 0 THEN Unwind(rx, resp) ELSE resp

Answered(resp) ==
    /\ pc = "request"
    /\ resp \in Answers(message)
    /\ ~IsRedirect(resp)
    /\ rx' = resp
    /\ answered_by' = server_address
    /\ sent' = message
    /\ first' = IF hops = 0 THEN message ELSE first

\* refresh: self.data = self._get_state()
StateReceived ==
    \E resp \in Answers(message) :
        /\ message.type = "get"
        /\ Answered(resp)
        /\ data' = Replace(data, Returned(resp).data)
        /\ since' = Since(IF ClusterKey \in DOMAIN data' THEN data'[ClusterKey] ELSE NoVal,
                           NoKey, NoKey)
        /\ pc' = "after_refresh"
        /\ UNCHANGED <<op, outcome, ret, server_address, config, policy_state, force,
                       message, response, attempt, hops, leader, first_true>>

\* _append_log: response = super()._append_log(payload); if response['success']: break
AppendAnswered ==
    \E resp \in Answers(message) :
        /\ message.type = "append"
        /\ Answered(resp)
        /\ response' = Returned(resp)
        /\ attempt' = attempt + 1
        /\ first_true' = IF first_true = 0 /\ resp.success THEN attempt + 1 ELSE first_true
        /\ since' = IF resp.success /\ message.action = "change"
                        THEN [since EXCEPT !.set = message.key] ELSE since
        /\ pc' = IF BreakLoop(Returned(resp)) THEN "append_return" ELSE "append"
        /\ UNCHANGED <<op, outcome, ret, data, server_address, config, policy_state,
                       force, message, hops, leader>>

\* diagnostic, config_cluster: return self._request(...)
AdminAnswered ==
    \E resp \in Answers(message) :
        /\ message.type \in {"diagnostic", "config"}
        /\ Answered(resp)
        /\ Finish("returned", RespRet(Returned(resp)))
        /\ UNCHANGED <<op, data, server_address, config, policy_state, force, message,
                       response, attempt, hops, leader, first_true, since>>

\* ------------------------------------------------------------------ refresh
\* refresh: if force or self.refresh_policy.can_update()
DoRefresh ==
    /\ pc = "refresh"
    /\ \E later \in Readings :
          LET d == ShouldRefresh(later)
          IN  /\ counter' = d.counter
              /\ last_refresh' = d.last_refresh
              /\ pc' = IF d.ret THEN "get_state" ELSE "after_refresh"
              /\ fired' = (fired \/ (~force /\ refresh_policy = "time" /\ d.ret))
              /\ now' = later
    /\ decisions' = IF ~force /\ refresh_policy = "count" THEN decisions + 1 ELSE decisions
    /\ UNCHANGED <<op, outcome, ret, data, server_address, config, lock, force,
                   message, response, attempt, request_hist, first_true, since>>

\* _get_state: self.server_address = tuple(random.choice(self.data['cluster']))
GetState ==
    /\ pc = "get_state"
    /\ IF ClusterKey \notin DOMAIN data
          THEN /\ Finish("KeyError", NoneRet)
               /\ UNCHANGED <<server_address, message, request_hist>>
       ELSE IF data[ClusterKey].tag # "list"
          THEN /\ Finish("TypeError", NoneRet)
               /\ UNCHANGED <<server_address, message, request_hist>>
       ELSE /\ \E m \in Contacts(data) : StartRequest(GetMsg, m)
            /\ UNCHANGED <<outcome, ret, sent>>
    /\ UNCHANGED <<op, data, config, policy_state, force, response, attempt,
                   first_true, since>>

\* __init__ and refresh return once refresh is through
RefreshReturns ==
    /\ pc = "after_refresh"
    /\ op.name \in {"init", "refresh"}
    /\ Finish("returned", NoneRet)
    /\ UNCHANGED <<op, data, server_address, config, policy_state, force, message,
                   response, attempt, request_hist, first_true, since>>

\* __getitem__: return self.data[key]
GetItemLookup ==
    /\ pc = "after_refresh"
    /\ op.name = "get"
    /\ IF op.key \in DOMAIN data
          THEN Finish("returned", ValueRet(data[op.key]))
          ELSE Finish("KeyError", NoneRet)
    /\ UNCHANGED <<op, data, server_address, config, policy_state, force, message,
                   response, attempt, request_hist, first_true, since>>

\* __delitem__: del self.data[self.__keytransform__(key)]
DelItemRemove ==
    /\ pc = "after_refresh"
    /\ op.name = "delete"
    /\ IF Holds(data, op.key)
          THEN /\ data' = DelItem(data, op.key)
               /\ since' = [since EXCEPT !.del = op.key]
               /\ pc' = "append"
               /\ UNCHANGED <<outcome, ret>>
          ELSE /\ Finish("KeyError", NoneRet)
               /\ UNCHANGED <<data, since>>
    /\ UNCHANGED <<op, server_address, config, policy_state, force, message,
                   response, attempt, request_hist, first_true>>

\* --------------------------------------------------------------- _append_log
\* for attempt in range(self.append_retry_attempts): the next attempt, if any
AppendAttempt ==
    /\ pc = "append"
    /\ IF HasNextAttempt(attempt, append_retry_attempts)
          THEN StartRequest(AppendMsg(Payload), server_address)
          ELSE /\ pc' = "append_return"
               /\ UNCHANGED <<message, server_address, hops, rx, first, leader,
                              answered_by>>
    /\ UNCHANGED <<op, outcome, ret, data, config, policy_state, force, response,
                   attempt, sent, first_true, since>>

\* return response; the caller, __setitem__ or __delitem__, drops it
AppendReturn ==
    /\ pc = "append_return"
    /\ IF response = NoResp
          THEN Finish("UnboundLocalError", NoneRet)
          ELSE Finish("returned",
                      IF op.name = "set" THEN SetItemReturn(response)
                                         ELSE DelItemReturn(response))
    /\ UNCHANGED <<op, data, server_address, config, policy_state, force, message,
                   response, attempt, request_hist, first_true, since>>

\* the caller has the result (or the exception) and may call again; a
\* constructor that raised leaves no object to call
Return ==
    /\ pc = "done"
    /\ ~(op.name \in {"init", "policy"} /\ outcome # "returned")
    /\ pc' = "idle"
    /\ op' = NoOp
    /\ outcome' = "idle"
    /\ ret' = NoneRet
    /\ force' = FALSE
    /\ message' = NoMsg
    /\ response' = NoResp
    /\ attempt' = 0
    /\ hops' = 0
    /\ rx' = NoResp
    /\ first' = NoMsg
    /\ sent' = NoMsg
    /\ leader' = NoMember
    /\ answered_by' = NoMember
    /\ first_true' = 0
    /\ UNCHANGED <<data, server_address, config, policy_state, since>>

Next ==
    \/ ConstructPolicy
    \/ CallGetItem \/ CallSetItem \/ CallDelItem \/ CallRefresh
    \/ CallDiagnostic \/ CallConfigCluster \/ SetLock \/ Tick
    \/ DoRefresh \/ GetState
    \/ RequestFails \/ RequestRedirected
    \/ StateReceived \/ AppendAnswered \/ AdminAnswered
    \/ RefreshReturns \/ GetItemLookup \/ DelItemRemove
    \/ AppendAttempt \/ AppendReturn \/ Return

Spec == Init /\ [][Next]_vars

\* every call in progress keeps running: the client is one synchronous thread
\* and the servers always answer
FairSpec == Spec /\ WF_vars(Next)

\* =================================================================== claims
Writes == {"set", "delete"}

\* Append attempts put on the wire by the _append_log call in progress
AppendsSent == attempt + IF pc = "request" /\ message.type = "append" THEN 1 ELSE 0

\* _append_log ran to its return statement
AppendLogEnded ==
    /\ pc = "done"
    /\ op.name \in Writes
    /\ outcome \in {"returned", "UnboundLocalError"}

\* a _request call got a normal response after h redirects
RequestReturnedAfter(h) == hops = h /\ rx.type \notin {"none", "redirect"}

\* C1 -- hop bound: once a _request call has been redirected more than MaxHops
\* times it follows no further redirect: the operation has ended in
\* RedirectLoopError.
C1_HopBound == hops > MaxHops => pc = "done" /\ outcome = "RedirectLoopError"

C3_MembershipKept ==
    op.name \in {"get", "set", "delete"} /\ since.cluster.tag = "list" =>
        /\ ClusterKey \in DOMAIN data
        /\ data[ClusterKey] = since.cluster

\* C4 -- redirect convergence: when the member first contacted answered with a
\* redirect and the leader it named answered normally, that leader is the
\* tracked member, it was sent the message that was sent first, and what
\* _request returns is the response of that leader.
C4_RedirectConvergence ==
    RequestReturnedAfter(1) =>
        /\ answered_by = leader
        /\ server_address = leader
        /\ sent = first
        /\ (message.type = "get" /\ pc = "after_refresh" => data = rx.data)
        /\ (message.type = "append" => response = rx)
        /\ (message.type \in {"diagnostic", "config"} => ret = RespRet(rx))

C4_Witness ==
    /\ RequestReturnedAfter(1)
    /\ pc = "after_refresh"
    /\ message = GetMsg
    /\ leader = "B"
    /\ AppKeys \subseteq DOMAIN data

\* C5 -- bounded write retry: with append_retry_attempts = n >= 1, no Append
\* is sent after an attempt answered success=true, and a set or delete whose
\* _append_log ran to its end has sent min(k, n) attempts, k the position of
\* the first success=true; with no success=true that is n attempts and the
\* last result has success=false.
C5_BoundedRetry ==
    append_retry_attempts >= 1 =>
        /\ AppendsSent <= append_retry_attempts
        /\ first_true # 0 => AppendsSent = first_true /\ pc \in {"append_return", "done"}
        /\ (pc = "append_return" \/ AppendLogEnded) =>
              /\ AppendsSent = IF first_true = 0 THEN append_retry_attempts
                                                 ELSE Min(first_true, append_retry_attempts)
              /\ first_true = 0 => response.type = "result" /\ ~response.success

C5_Witness ==
    /\ AppendLogEnded
    /\ append_retry_attempts = MaxAttempts
    /\ first_true = 0
    /\ AppendsSent = MaxAttempts
    /\ ~response.success

\* C6 -- _append_log never raises on retry exhaustion: whenever it ends, it
\* returns the result of the last attempt it made.
C6_ReturnsLastResult ==
    AppendLogEnded => outcome = "returned" /\ response.type = "result" /\ response = rx

\* C7 -- when every Append attempt of a set or delete was answered with
\* success=false, the operation returns that failed result to its caller.
C7_FailureReturned ==
    AppendLogEnded /\ attempt >= 1 /\ first_true = 0 =>
        /\ outcome = "returned"
        /\ ret = RespRet(response)
        /\ ~response.success

\* C8 as stated -- a key that delete removed from the mirror comes back only
\* by a forced refresh.
C8_OnlyForcedRestores ==
    [][(since.del \in Keys /\ since.del \notin DOMAIN data /\ since.del \in DOMAIN data')
          => force]_vars

\* what refresh raises when it cannot fetch
RefreshErrors == {"NetworkError", "DecodeError", "TypeError", "KeyError"}

\* C8 as amended -- a key that delete removed from the mirror is absent when
\* delete ends, whatever the Append attempts were answered, and stays absent
\* until the next snapshot fetch, forced or allowed by the policy; until then
\* no get of it returns a value: it raises KeyError, or the error its own
\* refresh ran into.
C8_OptimisticDelete ==
    /\ since.del \in Keys => since.del \notin DOMAIN data
    /\ AppendLogEnded /\ op.name = "delete" => since.del = op.key
    /\ pc = "done" /\ op.name = "get" /\ op.key = since.del =>
          outcome \in {"KeyError"} \cup RefreshErrors

C8_Witness ==
    /\ AppendLogEnded
    /\ op = Op("delete", "a", 0)
    /\ outcome = "returned"
    /\ first_true = 0
    /\ "a" \notin DOMAIN data

\* a get under a RefreshPolicyLock whose flag is false
LockedGet == op.name = "get" /\ refresh_policy = "lock" /\ ~lock

\* C9 -- staleness under a lock held false: a get sends nothing, leaves the
\* mirror as it is and answers from it, the value the key has there or
\* KeyError; so it is after a set of the key that a server answered with
\* success.
C9_LockedGetIsLocal ==
    /\ [](LockedGet =>
            /\ sent = NoMsg
            /\ pc \notin {"get_state", "request"}
            /\ pc = "done" =>
                  IF op.key \in DOMAIN data
                      THEN outcome = "returned" /\ ret = ValueRet(data[op.key])
                      ELSE outcome = "KeyError")
    /\ [][LockedGet => data' = data]_vars

C9_Witness ==
    /\ LockedGet
    /\ pc = "done"
    /\ since.set = "a"
    /\ op.key = "a"
    /\ ret = ValueRet(Val(1))

\* C10 -- the mirror changes only by the bulk replacement of a snapshot fetch
\* or by delete's removal of its one key; set, diagnostic and config_cluster
\* leave it as it is.
C10_MirrorWrites ==
    [][/\ data' # data =>
            \/ /\ pc = "request" /\ message.type = "get" /\ pc' = "after_refresh"
               /\ data' = rx'.data
            \/ /\ pc = "after_refresh" /\ op.name = "delete"
               /\ op.key \in DOMAIN data
               /\ DOMAIN data' = DOMAIN data \ {op.key}
               /\ \A k \in DOMAIN data' : data'[k] = data[k]
       /\ op.name \in {"set", "diagnostic", "config"} => data' = data]_vars

C10_Witness ==
    /\ pc = "done"
    /\ op = Op("set", "a", 5)
    /\ outcome = "returned"
    /\ first_true = 1
    /\ "a" \in DOMAIN data
    /\ data["a"] = Val(1)

\* C11 -- the tracked member, once set, changes only in a step that receives a
\* redirect response, and then to the leader the redirect names; a snapshot
\* fetch that is answered directly leaves it as it was.
C11_OnlyRedirectMoves ==
    [][server_address # NoMember /\ server_address' # server_address =>
          /\ pc = "request"
          /\ rx'.type = "redirect"
          /\ server_address' = rx'.leader]_vars

\* C12 -- get under RefreshPolicyAlways: when the last snapshot (or the seed)
\* gave a membership list, every get fetches one snapshot and then returns the
\* value its key has in that snapshot, raises KeyError exactly when the key is
\* absent from that snapshot, and otherwise raises the error of the fetch.
C12_AlwaysGet ==
    /\ pc = "done" /\ op.name = "get" /\ refresh_policy = "always"
    /\ since.cluster.tag = "list"
    =>
    /\ sent = GetMsg
    /\ outcome \in {"returned", "KeyError", "NetworkError", "DecodeError", "RedirectLoopError"}
    /\ outcome = "returned" =>
          /\ rx.type = "state"
          /\ op.key \in DOMAIN rx.data
          /\ ret = ValueRet(rx.data[op.key])
    /\ outcome = "KeyError" <=> rx.type = "state" /\ op.key \notin DOMAIN rx.data

\* C13 -- a refresh that fetches replaces the mirror, membership list
\* included, by exactly the fetched snapshot; a refresh with force false whose
\* policy answers false leaves the mirror as it is and sends nothing.
C13_WholesaleRefresh ==
    /\ [](pc = "after_refresh" =>
            IF rx.type = "state"
                THEN /\ data = rx.data
                     /\ since.cluster = data[ClusterKey]
                     /\ sent = GetMsg
                ELSE ~force /\ sent = NoMsg)
    /\ [][pc = "refresh" =>
            /\ pc' = IF force \/ can_update(now).ret THEN "get_state" ELSE "after_refresh"
            /\ data' = data
            /\ since' = since
            /\ sent' = NoMsg /\ message' = NoMsg]_vars

C13_Witness ==
    /\ pc = "after_refresh"
    /\ op.name = "get"
    /\ refresh_policy = "count"
    /\ rx.type = "state"
    /\ since.cluster = Mem(Members)
    /\ data = rx.data
    /\ "a" \notin DOMAIN data

\* C14 -- RefreshPolicyCount with maximum = n >= 2: the k-th call of
\* can_update returns True exactly when k is a multiple of n, and the counter
\* is 0 after every call that returned True.
C14_EveryNth ==
    [][refresh_policy = "count" /\ maximum >= 2 /\ pc = "refresh" /\ ~force =>
          /\ decisions' = decisions + 1
          /\ pc' = "get_state" <=> decisions' % maximum = 0
          /\ pc' = "after_refresh" <=> decisions' % maximum # 0
          /\ pc' = "get_state" => counter' = 0]_vars

C14_Witness ==
    /\ refresh_policy = "count"
    /\ maximum = 2
    /\ decisions = 4
    /\ pc = "get_state"
    /\ ~force
    /\ counter = 0

\* C15 -- a RefreshPolicyCount with maximum < 1 is rejected: no can_update
\* call is ever answered by a count policy whose maximum is 0 or less.
C15_InvalidRejected ==
    refresh_policy = "count" /\ maximum < 1 => decisions = 0

\* C16 -- RefreshPolicyTime made from an interval is a policy, and its
\* can_update returns True exactly when no earlier call returned True or the
\* clock is more than the interval past the baseline; a call that returns
\* True sets the baseline to the current clock, one that returns False leaves
\* the baseline as it is.
C16_TimeGated ==
    /\ [](refresh_policy = "time" => ~(op.name = "policy" /\ outcome = "TypeError"))
    /\ [][refresh_policy = "time" /\ pc = "refresh" /\ ~force =>
            /\ pc' = "get_state" <=> (~fired \/ now - last_refresh > delta)
            /\ pc' = "get_state" => last_refresh' = now' /\ fired'
            /\ pc' = "after_refresh" => last_refresh' = last_refresh]_vars

\* C17 -- the Get of every snapshot fetch is first sent to a member of the
\* last known membership list, the seed's before the first snapshot and
\* afterwards that of the snapshot fetched last; a redirect received during
\* the fetch makes the leader it names the tracked member.
C17_ContactFromMembership ==
    pc = "request" /\ message.type = "get" =>
        /\ since.cluster.tag = "list"
        /\ hops = 0 => server_address \in since.cluster.members
        /\ hops > 0 => rx.type = "redirect" /\ server_address = rx.leader

C17_Witness ==
    /\ pc = "request"
    /\ message = GetMsg
    /\ op.name = "get"
    /\ hops = 0
    /\ since.cluster = Mem(Members)
    /\ server_address = "B"

\* C18 -- delete runs the forced refresh, then the local removal, then the
\* Append: no Append is sent before the key is removed, and the key is removed
\* from the snapshot just fetched; when the key is absent from that snapshot
\* the delete raises KeyError at the removal, sends no Append and leaves the
\* mirror equal to the snapshot.
C18_DeleteOrder ==
    /\ [](op.name = "delete" =>
            /\ pc \in {"refresh", "get_state"} => sent = NoMsg
            /\ pc = "request" /\ message.type = "get" => sent \in {NoMsg, GetMsg}
            /\ pc = "after_refresh" =>
                  /\ rx.type = "state" /\ data = rx.data
                  /\ since.del = NoKey /\ sent = GetMsg
            /\ pc \in {"append", "append_return"} \/ message.type = "append" =>
                  since.del = op.key /\ op.key \notin DOMAIN data
            /\ pc = "done" /\ rx.type = "state" /\ since.del = NoKey =>
                  /\ outcome = "KeyError" /\ op.key \notin DOMAIN rx.data
                  /\ data = rx.data /\ sent = GetMsg)
    /\ [][op.name = "delete" /\ pc = "after_refresh" =>
            IF op.key \in DOMAIN rx.data
                THEN pc' = "append" /\ op.key \notin DOMAIN data' /\ sent' = GetMsg
                ELSE /\ pc' = "done" /\ outcome' = "KeyError"
                     /\ data' = data /\ sent' = GetMsg]_vars

C18_Witness ==
    /\ pc = "done"
    /\ op = Op("delete", "a", 0)
    /\ outcome = "KeyError"
    /\ rx.type = "state"
    /\ "a" \notin DOMAIN rx.data
    /\ data = rx.data
    /\ sent = GetMsg

\* C19 -- a forced refresh, that of the construction and that at the start of
\* every delete, goes on to fetch a snapshot whatever the policy is and does
\* not call can_update: it leaves the counter of a count policy and the
\* baseline of a time policy as they were.
C19_ForcedSkipsPolicy ==
    /\ [](op.name \in {"init", "delete"} /\ pc \in {"refresh", "get_state"} => force)
    /\ [][pc = "refresh" /\ force =>
            /\ pc' = "get_state"
            /\ counter' = counter
            /\ last_refresh' = last_refresh
            /\ decisions' = decisions /\ fired' = fired]_vars

C19_Witness ==
    /\ pc = "get_state"
    /\ op.name = "delete"
    /\ force
    /\ refresh_policy = "count"
    /\ maximum = 2
    /\ counter = 1
    /\ decisions = 3

\* the refresh of the operation in progress has not completed its fetch
Fetching == pc \in {"refresh", "get_state"} \/ (pc = "request" /\ message.type = "get")

\* C20 -- when the snapshot fetch of a refresh fails with a network or decode
\* error, the mirror and its membership list are what they were before the
\* call: the mirror changes only in the step that receives the complete
\* snapshot; a delete whose forced refresh fails removes no key and sends no
\* Append.
C20_FailedFetchKeepsMirror ==
    /\ [](pc = "done" /\ message.type = "get"
              /\ outcome \in {"NetworkError", "DecodeError"} => sent = GetMsg)
    /\ [][Fetching /\ ~(pc' = "after_refresh" /\ rx'.type = "state") =>
            data' = data /\ since' = since]_vars
    /\ [][pc = "request" /\ message.type = "get" /\ pc' = "done" =>
            /\ outcome' \in {"NetworkError", "DecodeError"}
            /\ data' = data /\ since' = since
            /\ sent' = GetMsg]_vars

C20_Witness ==
    /\ pc = "done"
    /\ op = Op("delete", "a", 0)
    /\ outcome = "NetworkError"
    /\ message = GetMsg
    /\ sent = GetMsg
    /\ "a" \in DOMAIN data
    /\ since.del = NoKey

====
